---------------------------- MODULE Spec2Model ----------------------------
(***************************************************************************)
(* Model of provider/sdk/feast_azure_provider/mssqlserver_source.py:       *)
(* the MsSqlServerOptions holder, the MsSqlServerSource descriptor, their  *)
(* protobuf/JSON conversions, equality and schema introspection.           *)
(*                                                                         *)
(* Python values are tagged records: None, str, int, the two classes.      *)
(* A call either returns a value or raises; the result of the most recent  *)
(* call is kept in ret, the externally visible effects of the most recent  *)
(* call (holder built, inference invoked, base initialiser called, engine  *)
(* created, query issued) are kept, in order, in trace.                    *)
(***************************************************************************)
EXTENDS Naturals, Sequences, FiniteSets

VARIABLES
    src,    \* the MsSqlServerSource under study, or Null before construction
    obj,    \* the object an unfinished __init__ is building, or Null
    args,   \* arguments/locals of the call in progress or just finished
    pc,     \* position inside a multi-step call; "idle" between calls
    ret,    \* outcome of the most recent call
    trace   \* effects of the most recent call, in program order

vars == <<src, obj, args, pc, ret, trace>>

-----------------------------------------------------------------------------
(* Bounds of the model *)

\* longest table_ref, in characters
MaxLen == 2

\* most rows the metadata query returns
MaxRows == 2

-----------------------------------------------------------------------------
(* Python values *)

Null == [t |-> "null"]

None == [t |-> "None"]

Str(s) == [t |-> "str", v |-> s]

Int(n) == [t |-> "int", v |-> n]

\* Python truthiness of an Optional[str]: None and "" are falsy
Truthy(x) == x.t = "str" /\ x.v # ""

Returned(op, v) == [op |-> op, kind |-> "return", value |-> v]

Raised(op, e) == [op |-> op, kind |-> "raise", exc |-> e]

\* all sequences over S of length at most n
RECURSIVE SeqsUpTo(_, _)
SeqsUpTo(S, n) ==
    IF n = 0 THEN {<<>>}
    ELSE LET shorter == SeqsUpTo(S, n - 1)
         IN  shorter \cup {Append(s, c) : s \in {x \in shorter : Len(x) = n - 1}, c \in S}

\* characters a table reference is written with; "." is the separator
Chars == {"t", "."}

\* table references: None, or a string given as its sequence of characters
TableRefs == {None} \cup {Str(s) : s \in SeqsUpTo(Chars, MaxLen)}

\* connection strings: the constructor's default "" and a real one
ConnStrs == {Str(""), Str("mssql://h")}

\* values a caller passes for event_timestamp_column
EventArgs == {None, Str(""), Str("ev")}

CreatedCols == {Str(""), Str("cr")}

PartitionCols == {Str(""), Str("dp")}

\* field mappings: Python dicts as functions from keys to values
EmptyDict == [k \in {} |-> ""]

FieldMappings == {EmptyDict, [k \in {"col"} |-> "feat"]}

-----------------------------------------------------------------------------
(* json.dumps / json.loads / bytes, restricted to flat objects whose       *)
(* values are None or str.  A JSON text is the sequence of its members in  *)
(* the order written; a member is a key and a JSON token.                  *)

JsonToken(x) ==
    IF x.t = "None" THEN [j |-> "null"] ELSE [j |-> "string", s |-> x.v]

PyValue(tok) ==
    IF tok.j = "null" THEN None ELSE Str(tok.s)

\* json.dumps of a dict literal whose keys are written in the order keys
JsonDumps(keys, d) ==
    [i \in 1..Len(keys) |-> [key |-> keys[i], val |-> JsonToken(d[keys[i]])]]

Utf8Encode(text) == [bytes |-> text]

Utf8Decode(b) == b.bytes

\* json.loads: a dict; of a repeated key the last member wins
JsonLoads(b) ==
    LET text == Utf8Decode(b)
        keys == {text[i].key : i \in 1..Len(text)}
        last(k) == CHOOSE i \in 1..Len(text) :
                      /\ text[i].key = k
                      /\ \A j \in 1..Len(text) : text[j].key = k => j <= i
    IN  [k \in keys |-> PyValue(text[last(k)].val)]

-----------------------------------------------------------------------------
(* class MsSqlServerOptions *)

MsSqlServerOptions(connection_str, table_ref) ==
    [t |-> "MsSqlServerOptions",
     connection_str |-> connection_str,
     table_ref |-> table_ref]

\* the keys to_proto writes, in the order of the dict literal
OptionsProtoKeysBug == <<"table_ref", "connection_str">>

OptionsProtoKeys == <<"table_ref", "connection_string">>

\* MsSqlServerOptions.to_proto: CustomSourceOptions(configuration=...)
MsSqlServerOptions_to_proto(self) ==
    LET keys == OptionsProtoKeys
        d == [k \in {keys[1], keys[2]} |->
                 IF k = keys[1] THEN self.table_ref ELSE self.connection_str]
    IN  [configuration |-> Utf8Encode(JsonDumps(keys, d))]

\* a variant of from_proto reading the key that to_proto writes
MsSqlServerOptions_from_proto_string(op, proto) ==
    LET options == JsonLoads(proto.configuration)
    IN  IF "table_ref" \notin DOMAIN options
        THEN Raised(op, [type |-> "KeyError", key |-> "table_ref"])
        ELSE IF "connection_string" \notin DOMAIN options
        THEN Raised(op, [type |-> "KeyError", key |-> "connection_string"])
        ELSE Returned(op, MsSqlServerOptions(options["connection_string"],
                                             options["table_ref"]))

\* a variant of from_proto using dict.get, where an absent key reads as None
MsSqlServerOptions_from_proto_get(op, proto) ==
    LET options == JsonLoads(proto.configuration)
        get(k) == IF k \in DOMAIN options THEN options[k] ELSE None
    IN  Returned(op, MsSqlServerOptions(get("connection_str"), get("table_ref")))

\* MsSqlServerOptions.from_proto: options["table_ref"] is evaluated first,
\* then options["connection_str"]; a missing key raises KeyError
MsSqlServerOptions_from_proto(op, proto) ==
    LET options == JsonLoads(proto.configuration)
    IN  IF "table_ref" \notin DOMAIN options
        THEN Raised(op, [type |-> "KeyError", key |-> "table_ref"])
        ELSE IF "connection_str" \notin DOMAIN options
        THEN Raised(op, [type |-> "KeyError", key |-> "connection_str"])
        ELSE Returned(op, MsSqlServerOptions(options["connection_str"],
                                             options["table_ref"]))

-----------------------------------------------------------------------------
(* class MsSqlServerSource: pure parts *)

\* constructor keyword arguments
CtorArgs(table_ref, event_timestamp_column, created_timestamp_column, field_mapping, date_partition_column, connection_str) ==
    [table_ref |-> table_ref,
     event_timestamp_column |-> event_timestamp_column,
     created_timestamp_column |-> created_timestamp_column,
     field_mapping |-> field_mapping,
     date_partition_column |-> date_partition_column,
     connection_str |-> connection_str]

\* __init__, lines 104-107: the holder and the raw copy of connection_str
SourceWithOptions(kw) ==
    [t |-> "MsSqlServerSource",
     mssqlserver_options |-> MsSqlServerOptions(kw.connection_str, kw.table_ref),
     raw_connection_str |-> kw.connection_str]

\* the base initialiser storing the four base attributes on the object
SourceWithBase(o, event_timestamp_column, kw) ==
    [t |-> "MsSqlServerSource",
     mssqlserver_options |-> o.mssqlserver_options,
     raw_connection_str |-> o.raw_connection_str,
     event_timestamp_column |-> event_timestamp_column,
     created_timestamp_column |-> kw.created_timestamp_column,
     field_mapping |-> kw.field_mapping,
     date_partition_column |-> kw.date_partition_column]

\* __init__, line 110 read as "event_timestamp_column is None or infer(...)"
NeedsInferenceIsNone(event_timestamp_column) ==
    event_timestamp_column.t = "None"

\* __init__, lines 110-111: "event_timestamp_column or infer(...)" evaluates
\* the inference exactly when the given value is falsy
NeedsInference(event_timestamp_column) ==
    ~Truthy(event_timestamp_column)

\* __eq__ comparing the table reference as well
MsSqlServerSource_eq_table_ref(self, other) ==
    IF other.t # "MsSqlServerSource"
    THEN Raised("__eq__", [type |-> "TypeError"])
    ELSE Returned("__eq__",
            /\ self.mssqlserver_options.connection_str
                 = other.mssqlserver_options.connection_str
            /\ self.mssqlserver_options.table_ref
                 = other.mssqlserver_options.table_ref
            /\ self.event_timestamp_column = other.event_timestamp_column
            /\ self.created_timestamp_column = other.created_timestamp_column
            /\ self.field_mapping = other.field_mapping)

\* __eq__ answering False for a value of another type
MsSqlServerSource_eq_lenient(self, other) ==
    IF other.t # "MsSqlServerSource"
    THEN Returned("__eq__", FALSE)
    ELSE Returned("__eq__",
            /\ self.mssqlserver_options.connection_str
                 = other.mssqlserver_options.connection_str
            /\ self.event_timestamp_column = other.event_timestamp_column
            /\ self.created_timestamp_column = other.created_timestamp_column
            /\ self.field_mapping = other.field_mapping)

\* MsSqlServerSource.__eq__
MsSqlServerSource_eq(self, other) ==
    IF other.t # "MsSqlServerSource"
    THEN Raised("__eq__", [type |-> "TypeError"])
    ELSE Returned("__eq__",
            /\ self.mssqlserver_options.connection_str
                 = other.mssqlserver_options.connection_str
            /\ self.event_timestamp_column = other.event_timestamp_column
            /\ self.created_timestamp_column = other.created_timestamp_column
            /\ self.field_mapping = other.field_mapping)

\* a dict stored into a protobuf map field: the set of its entries
ProtoMap(d) == {<<k, d[k]>> : k \in DOMAIN d}

\* dict(map field)
DictOfMap(m) ==
    [k \in {e[1] : e \in m} |-> (CHOOSE e \in m : e[1] = k)[2]]

\* a str stored into a protobuf string field, and read back
ProtoString(x) == x.v

PyStr(s) == Str(s)

\* MsSqlServerSource.to_proto
MsSqlServerSource_to_proto(self) ==
    [type |-> "CUSTOM_SOURCE",
     field_mapping |-> ProtoMap(self.field_mapping),
     custom_options |-> MsSqlServerOptions_to_proto(self.mssqlserver_options),
     event_timestamp_column |-> ProtoString(self.event_timestamp_column),
     created_timestamp_column |-> ProtoString(self.created_timestamp_column),
     date_partition_column |-> ProtoString(self.date_partition_column)]

\* the key from_proto reads the connection string from, as the options-level
\* reader spells it
SourceConnectionKeyStr == "connection_str"

\* the key MsSqlServerSource.from_proto reads the connection string from
SourceConnectionKey == "connection_string"

\* MsSqlServerSource.from_proto up to the constructor call: the keyword
\* arguments it passes, or the KeyError of the first missing key
MsSqlServerSource_from_proto_args(data_source) ==
    LET options == JsonLoads(data_source.custom_options.configuration)
    IN  IF "table_ref" \notin DOMAIN options
        THEN Raised("from_proto", [type |-> "KeyError", key |-> "table_ref"])
        ELSE IF SourceConnectionKey \notin DOMAIN options
        THEN Raised("from_proto", [type |-> "KeyError", key |-> SourceConnectionKey])
        ELSE Returned("from_proto",
                CtorArgs(options["table_ref"],
                         PyStr(data_source.event_timestamp_column),
                         PyStr(data_source.created_timestamp_column),
                         DictOfMap(data_source.field_mapping),
                         PyStr(data_source.date_partition_column),
                         options[SourceConnectionKey]))

\* str(x) inside an f-string, for an Optional[str] of characters
FormatChars(x) ==
    IF x.t = "None" THEN <<"N", "o", "n", "e">> ELSE x.v

\* the grave accent character (U+0060) the table reference is quoted with
GraveAccent == "U+0060"

\* MsSqlServerSource.get_table_query_string
MsSqlServerSource_get_table_query_string(self) ==
    Str(<<GraveAccent>> \o FormatChars(self.mssqlserver_options.table_ref)
                       \o <<GraveAccent>>)

\* str.split(".") with maxsplit=1: cut at the first separator only
SplitOnce(s, sep) ==
    IF \A i \in 1..Len(s) : s[i] # sep THEN <<s>>
    ELSE LET i == CHOOSE k \in 1..Len(s) :
                     s[k] = sep /\ \A j \in 1..(k - 1) : s[j] # sep
         IN  <<SubSeq(s, 1, i - 1), SubSeq(s, i + 1, Len(s))>>

\* str.split(sep) for a one-character separator: one more part than there
\* are separators, empty parts kept
RECURSIVE Split(_, _)
Split(s, sep) ==
    IF \A i \in 1..Len(s) : s[i] # sep THEN <<s>>
    ELSE LET i == CHOOSE k \in 1..Len(s) :
                     s[k] = sep /\ \A j \in 1..(k - 1) : s[j] # sep
         IN  <<SubSeq(s, 1, i - 1)>> \o Split(SubSeq(s, i + 1, Len(s)), sep)

\* rows of the metadata query: (COLUMN_NAME, DATA_TYPE) pairs
RowValues == {<<"id", "int">>, <<"ts", "datetime">>}

QueryResults == SeqsUpTo(RowValues, MaxRows)

\* pandas.read_sql: the result set as a frame of two columns
DataFrame(rows) ==
    [COLUMN_NAME |-> [i \in 1..Len(rows) |-> rows[i][1]],
     DATA_TYPE |-> [i \in 1..Len(rows) |-> rows[i][2]]]

\* the pairs with the two columns taken in the other order
ZipColumnsSwapped(table_schema) ==
    [i \in 1..Len(table_schema.COLUMN_NAME) |->
        <<table_schema.DATA_TYPE[i], table_schema.COLUMN_NAME[i]>>]

\* list(zip(COLUMN_NAME.to_list(), DATA_TYPE.to_list())), lines 197-204
ZipColumns(table_schema) ==
    LET names == table_schema.COLUMN_NAME
        types == table_schema.DATA_TYPE
        n == IF Len(names) <= Len(types) THEN Len(names) ELSE Len(types)
    IN  [i \in 1..n |-> <<names[i], types[i]>>]

-----------------------------------------------------------------------------
(* Inputs *)

\* the base attributes a caller constructs the source under study with:
\* all three at their defaults, or all three set
BaseArgs ==
    {[created_timestamp_column |-> Str(""), field_mapping |-> EmptyDict,
      date_partition_column |-> Str("")],
     [created_timestamp_column |-> Str("cr"),
      field_mapping |-> [k \in {"col"} |-> "feat"],
      date_partition_column |-> Str("dp")]}

AllCtorArgs ==
    {CtorArgs(tr, ev, b.created_timestamp_column, b.field_mapping,
              b.date_partition_column, cs) :
        tr \in TableRefs, ev \in EventArgs, b \in BaseArgs, cs \in ConnStrs}

\* column names the timestamp inference can come back with
InferredCols == {"ts"}

\* fully constructed sources a caller may compare against
OtherSources ==
    {SourceWithBase(SourceWithOptions(kw), ev, kw) :
        kw \in {CtorArgs(tr, None, cr, fm, dp, cs) :
                   tr \in {Str(<<"t">>), Str(<<"t", ".", "t">>)},
                   cr \in CreatedCols, fm \in FieldMappings,
                   dp \in PartitionCols, cs \in ConnStrs},
        ev \in {Str("ev"), Str("ts")}}

\* values of other types a caller may compare against
NonSources == {None, Int(1), Str("mssql://h"), MsSqlServerOptions(None, None)}

\* holders a caller may install through the mssqlserver_options setter
Holders ==
    {MsSqlServerOptions(cs, tr) : cs \in ConnStrs, tr \in TableRefs}

\* JSON payloads that did not come from to_proto: any set of the three key
\* spellings, each key present at most once
ForeignPayloads ==
    LET val(k) == IF k = "table_ref" THEN Str(<<"t", ".", "t">>)
                  ELSE Str("mssql://h")
        text(ks) == SelectSeq(<<"table_ref", "connection_str", "connection_string">>,
                              LAMBDA k : k \in ks)
    IN  {[configuration |->
             Utf8Encode(JsonDumps(text(ks), [k \in ks |-> val(k)]))] :
            ks \in SUBSET {"table_ref", "connection_str", "connection_string"}}

\* DataSource messages that did not come from to_proto
ForeignMessages ==
    {[type |-> "CUSTOM_SOURCE",
      field_mapping |-> ProtoMap(EmptyDict),
      custom_options |-> p,
      event_timestamp_column |-> ev,
      created_timestamp_column |-> "",
      date_partition_column |-> ""] :
        p \in ForeignPayloads, ev \in {"", "ev"}}

-----------------------------------------------------------------------------
(* State machine *)

Init ==
    /\ src = Null
    /\ obj = Null
    /\ args = Null
    /\ pc = "idle"
    /\ ret = Returned("import", None)
    /\ trace = <<>>

Running(op) == [op |-> op, kind |-> "running"]

\* __init__, lines 104-107, entered directly or from from_proto
BeginInit(via, msg, kw) ==
    /\ obj' = SourceWithOptions(kw)
    /\ args' = [via |-> via, msg |-> msg, kw |-> kw, event |-> Null]
    /\ pc' = "init_event_ts"
    /\ ret' = Running(via)
    /\ trace' = <<[e |-> "options"]>>
    /\ UNCHANGED src

\* MsSqlServerSource(...): the source under study is constructed once
MsSqlServerSource_init(kw) ==
    /\ pc = "idle"
    /\ src = Null
    /\ BeginInit("__init__", Null, kw)

\* MsSqlServerSource.from_proto(data_source)
MsSqlServerSource_from_proto(data_source) ==
    /\ pc = "idle"
    /\ LET r == MsSqlServerSource_from_proto_args(data_source)
       IN  IF r.kind = "raise"
           THEN /\ ret' = r
                /\ args' = [via |-> "from_proto", msg |-> data_source,
                            kw |-> Null, event |-> Null]
                /\ trace' = <<>>
                /\ UNCHANGED <<src, obj, pc>>
           ELSE BeginInit("from_proto", data_source, r.value)

\* __init__, line 110: the given event_timestamp_column is truthy
InitEventTsGiven ==
    /\ pc = "init_event_ts"
    /\ ~NeedsInference(args.kw.event_timestamp_column)
    /\ args' = [args EXCEPT !.event = args.kw.event_timestamp_column]
    /\ pc' = "init_base"
    /\ UNCHANGED <<src, obj, ret, trace>>

\* __init__, line 111: _infer_event_timestamp_column finds a column
InitEventTsInferred(col) ==
    /\ pc = "init_event_ts"
    /\ NeedsInference(args.kw.event_timestamp_column)
    /\ trace' = Append(trace, [e |-> "infer", pattern |-> "TIMESTAMP|DATETIME"])
    /\ args' = [args EXCEPT !.event = Str(col)]
    /\ pc' = "init_base"
    /\ UNCHANGED <<src, obj, ret>>

\* __init__, line 111: _infer_event_timestamp_column raises
InitEventTsInferenceFails ==
    /\ pc = "init_event_ts"
    /\ NeedsInference(args.kw.event_timestamp_column)
    /\ trace' = Append(trace, [e |-> "infer", pattern |-> "TIMESTAMP|DATETIME"])
    /\ ret' = Raised(args.via, [type |-> "InferenceError"])
    /\ obj' = Null
    /\ pc' = "idle"
    /\ UNCHANGED <<src, args>>

\* __init__, lines 109-115: super().__init__(...); the call returns
InitBase ==
    /\ pc = "init_base"
    /\ trace' = Append(trace, [e |-> "base_init"])
    /\ LET done == SourceWithBase(obj, args.event, args.kw)
       IN  IF args.via = "__init__"
           THEN src' = done /\ ret' = Returned("__init__", None)
           ELSE src' = src /\ ret' = Returned("from_proto", done)
    /\ obj' = Null
    /\ pc' = "idle"
    /\ UNCHANGED args

Ready == pc = "idle" /\ src # Null

\* a call on src that completes in one step with outcome r
Call(r) ==
    /\ ret' = r
    /\ args' = Null
    /\ trace' = <<>>
    /\ UNCHANGED <<obj, pc>>

\* source.mssqlserver_options.connection_str = v
SetConnectionStr(v) ==
    /\ Ready
    /\ src' = [src EXCEPT !.mssqlserver_options.connection_str = v]
    /\ Call(Returned("connection_str.setter", None))

\* source.mssqlserver_options.table_ref = v
SetTableRef(v) ==
    /\ Ready
    /\ src' = [src EXCEPT !.mssqlserver_options.table_ref = v]
    /\ Call(Returned("table_ref.setter", None))

\* source.mssqlserver_options = h
SetOptions(h) ==
    /\ Ready
    /\ src' = [src EXCEPT !.mssqlserver_options = h]
    /\ Call(Returned("mssqlserver_options.setter", None))

\* source.to_proto()
ToProto ==
    /\ Ready
    /\ Call(Returned("to_proto", MsSqlServerSource_to_proto(src)))
    /\ UNCHANGED src

\* source == other
Eq(other) ==
    /\ Ready
    /\ ret' = MsSqlServerSource_eq(src, other)
    /\ args' = [other |-> other]
    /\ trace' = <<>>
    /\ UNCHANGED <<src, obj, pc>>

\* source.get_table_query_string()
GetTableQueryString ==
    /\ Ready
    /\ Call(Returned("get_table_query_string",
                     MsSqlServerSource_get_table_query_string(src)))
    /\ UNCHANGED src

\* source.validate(config)
Validate ==
    /\ Ready
    /\ Call(Returned("validate", None))
    /\ UNCHANGED src

\* source.mssqlserver_options.to_proto()
OptionsToProto ==
    /\ Ready
    /\ Call(Returned("options.to_proto",
                     MsSqlServerOptions_to_proto(src.mssqlserver_options)))
    /\ UNCHANGED src

\* MsSqlServerOptions.from_proto(proto)
OptionsFromProto(proto) ==
    /\ pc = "idle"
    /\ ret' = MsSqlServerOptions_from_proto("options.from_proto", proto)
    /\ args' = [proto |-> proto]
    /\ trace' = <<>>
    /\ UNCHANGED <<src, obj, pc>>

\* get_table_column_names_and_types, lines 189-190: create_engine returns
GetColsCreateEngine ==
    /\ Ready
    /\ trace' = <<[e |-> "create_engine", url |-> src.raw_connection_str]>>
    /\ ret' = Running("get_table_column_names_and_types")
    /\ args' = Null
    /\ pc' = "cols_split"
    /\ UNCHANGED <<src, obj>>

\* get_table_column_names_and_types, line 189: create_engine raises
GetColsCreateEngineFails ==
    /\ Ready
    /\ trace' = <<[e |-> "create_engine", url |-> src.raw_connection_str]>>
    /\ ret' = Raised("get_table_column_names_and_types", [type |-> "ArgumentError"])
    /\ args' = Null
    /\ UNCHANGED <<src, obj, pc>>

\* line 191 outcome: the two names, or the error of the split/unpack
SplitTableRef(table_ref) ==
    IF table_ref.t = "None"
    THEN Raised("get_table_column_names_and_types", [type |-> "AttributeError"])
    ELSE LET parts == Split(table_ref.v, ".")
         IN  IF Len(parts) # 2
             THEN Raised("get_table_column_names_and_types", [type |-> "ValueError"])
             ELSE Returned("split", [database |-> parts[1], table_name |-> parts[2]])

\* get_table_column_names_and_types, line 191
GetColsSplit ==
    /\ pc = "cols_split"
    /\ LET r == SplitTableRef(src.mssqlserver_options.table_ref)
       IN  IF r.kind = "raise"
           THEN ret' = r /\ pc' = "idle" /\ args' = args
           ELSE ret' = ret /\ pc' = "cols_query" /\ args' = r.value
    /\ UNCHANGED <<src, obj, trace>>

\* the metadata query of lines 192-195
ColumnsQuery(database, table_name) ==
    [e |-> "read_sql",
     from_database |-> database,
     where_table_name |-> table_name]

\* get_table_column_names_and_types, lines 192-205: the query answers rows
GetColsReadSql(rows) ==
    /\ pc = "cols_query"
    /\ trace' = trace \o <<ColumnsQuery(args.database, args.table_name),
                           [e |-> "rows", rows |-> rows]>>
    /\ ret' = Returned("get_table_column_names_and_types",
                       ZipColumns(DataFrame(rows)))
    /\ pc' = "idle"
    /\ UNCHANGED <<src, obj, args>>

\* get_table_column_names_and_types, line 196: the query fails
GetColsReadSqlFails ==
    /\ pc = "cols_query"
    /\ trace' = Append(trace, ColumnsQuery(args.database, args.table_name))
    /\ ret' = Raised("get_table_column_names_and_types", [type |-> "DatabaseError"])
    /\ pc' = "idle"
    /\ UNCHANGED <<src, obj, args>>

\* messages from_proto may be handed: the source's own, or a foreign one
Messages ==
    ForeignMessages \cup
        (IF src = Null THEN {} ELSE {MsSqlServerSource_to_proto(src)})

\* payloads the options-level from_proto may be handed
Payloads ==
    ForeignPayloads \cup
        (IF src = Null THEN {}
         ELSE {MsSqlServerOptions_to_proto(src.mssqlserver_options)})

Next ==
    \/ \E kw \in AllCtorArgs : MsSqlServerSource_init(kw)
    \/ \E m \in Messages : MsSqlServerSource_from_proto(m)
    \/ InitEventTsGiven
    \/ \E col \in InferredCols : InitEventTsInferred(col)
    \/ InitEventTsInferenceFails
    \/ InitBase
    \/ \E v \in ConnStrs : SetConnectionStr(v)
    \/ \E v \in TableRefs : SetTableRef(v)
    \/ \E h \in Holders : SetOptions(h)
    \/ ToProto
    \/ \E other \in OtherSources \cup NonSources : Eq(other)
    \/ GetTableQueryString
    \/ Validate
    \/ OptionsToProto
    \/ \E p \in Payloads : OptionsFromProto(p)
    \/ GetColsCreateEngine
    \/ GetColsCreateEngineFails
    \/ GetColsSplit
    \/ \E rows \in QueryResults : GetColsReadSql(rows)
    \/ GetColsReadSqlFails

Spec == Init /\ [][Next]_vars

-----------------------------------------------------------------------------
(* Helpers of the properties, written without the operators they check *)

GetCols == "get_table_column_names_and_types"

\* the keys a payload's JSON text carries
PayloadKeys(proto) ==
    {proto.configuration.bytes[i].key : i \in 1..Len(proto.configuration.bytes)}

\* the Python value a payload's JSON text carries under key k
PayloadValue(proto, k) ==
    LET text == proto.configuration.bytes
        m == text[CHOOSE i \in 1..Len(text) : text[i].key = k]
    IN  IF m.val.j = "null" THEN None ELSE Str(m.val.s)

\* positions of the separator in a table reference
Dots(table_ref) ==
    IF table_ref.t = "None" THEN {}
    ELSE {i \in 1..Len(table_ref.v) : table_ref.v[i] = "."}

ExactlyOneDot(table_ref) ==
    table_ref.t = "str" /\ Cardinality(Dots(table_ref)) = 1

QueriesIssued == {i \in 1..Len(trace) : trace[i].e = "read_sql"}

InferencesInvoked == {i \in 1..Len(trace) : trace[i].e = "infer"}

\* a constructor call, direct or through from_proto, has ended
ConstructionEnded ==
    /\ pc = "idle"
    /\ ret.op \in {"__init__", "from_proto"}
    /\ args.kw # Null

\* the object a finished constructor call produced
Constructed == IF ret.op = "__init__" THEN src ELSE ret.value

-----------------------------------------------------------------------------
(* Properties *)

\* C1: from_proto applied to the message to_proto produced for a source
\* returns a source, and that source is equal to the original under __eq__.
C1_SourceRoundTrip ==
    (/\ pc = "idle"
     /\ src # Null
     /\ ret.op = "from_proto"
     /\ args.msg = MsSqlServerSource_to_proto(src))
    => /\ ret.kind = "return"
       /\ MsSqlServerSource_eq(ret.value, src) = Returned("__eq__", TRUE)
       /\ ret.value.mssqlserver_options.connection_str
            = src.mssqlserver_options.connection_str
       /\ ret.value.event_timestamp_column = src.event_timestamp_column
       /\ ret.value.created_timestamp_column = src.created_timestamp_column
       /\ ret.value.field_mapping = src.field_mapping

\* C1 witness: the message of a source with a real connection string, a
\* table reference and a non-empty field mapping has been read back.
C1_Witness ==
    /\ pc = "idle"
    /\ src # Null
    /\ ret.op = "from_proto"
    /\ ret.kind = "return"
    /\ args.msg = MsSqlServerSource_to_proto(src)
    /\ src.mssqlserver_options.connection_str = Str("mssql://h")
    /\ src.mssqlserver_options.table_ref = Str(<<"t", ".">>)
    /\ src.field_mapping # EmptyDict

\* the options-level from_proto was handed the payload that to_proto
\* produced for the source's holder, both of whose fields are non-null
OptionsRoundTripEnded ==
    /\ pc = "idle"
    /\ src # Null
    /\ ret.op = "options.from_proto"
    /\ args.proto = MsSqlServerOptions_to_proto(src.mssqlserver_options)
    /\ src.mssqlserver_options.table_ref # None
    /\ src.mssqlserver_options.connection_str # None

\* C2 as stated: MsSqlServerOptions.from_proto(opts.to_proto()) returns a
\* holder whose table_ref is the original and whose connection_str is None.
C2_Original ==
    OptionsRoundTripEnded
    => /\ ret.kind = "return"
       /\ ret.value.table_ref = src.mssqlserver_options.table_ref
       /\ ret.value.connection_str = None

\* C2 amended: MsSqlServerOptions.from_proto(opts.to_proto()) returns no
\* holder: it raises KeyError for "connection_str".  The payload does
\* carry the original table_ref under "table_ref", and the connection
\* string only under "connection_string".
C2_OptionsRoundTripRaises ==
    OptionsRoundTripEnded
    => /\ ret.kind = "raise"
       /\ ret.exc = [type |-> "KeyError", key |-> "connection_str"]
       /\ PayloadKeys(args.proto) = {"table_ref", "connection_string"}
       /\ PayloadValue(args.proto, "table_ref") = src.mssqlserver_options.table_ref
       /\ PayloadValue(args.proto, "connection_string")
            = src.mssqlserver_options.connection_str

\* C2 witness: the round trip was attempted on a holder with a table
\* reference and a real connection string.
C2_Witness ==
    /\ OptionsRoundTripEnded
    /\ src.mssqlserver_options.table_ref = Str(<<"t", ".">>)
    /\ src.mssqlserver_options.connection_str = Str("mssql://h")

\* C3: a == b for two sources is a boolean, true exactly when the holders'
\* connection strings, the event-timestamp columns, the created-timestamp
\* columns and the field mappings agree; table_ref and
\* date_partition_column play no part.
C3_EqComparesFourFields ==
    (/\ pc = "idle"
     /\ ret.op = "__eq__"
     /\ args.other.t = "MsSqlServerSource")
    => /\ ret.kind = "return"
       /\ ret.value \in BOOLEAN
       /\ ret.value <=>
            /\ src.mssqlserver_options.connection_str
                 = args.other.mssqlserver_options.connection_str
            /\ src.event_timestamp_column = args.other.event_timestamp_column
            /\ src.created_timestamp_column = args.other.created_timestamp_column
            /\ src.field_mapping = args.other.field_mapping

\* C3 witness: two sources that differ in table_ref and in
\* date_partition_column compared equal.
C3_Witness ==
    /\ pc = "idle"
    /\ ret.op = "__eq__"
    /\ args.other.t = "MsSqlServerSource"
    /\ ret.kind = "return"
    /\ ret.value = TRUE
    /\ src.mssqlserver_options.table_ref # args.other.mssqlserver_options.table_ref
    /\ src.date_partition_column # args.other.date_partition_column

\* C4: a comparison with a value that is not an MsSqlServerSource ends in
\* TypeError, never in a boolean, and leaves the source as it was.
C4_EqRaisesOnOtherTypes ==
    [][(/\ ret'.op = "__eq__"
        /\ args' # Null
        /\ args'.other.t # "MsSqlServerSource")
       => /\ ret'.kind = "raise"
          /\ ret'.exc.type = "TypeError"
          /\ src' = src]_vars

\* C4 witness: the source was compared with an integer.
C4_Witness ==
    /\ pc = "idle"
    /\ ret.op = "__eq__"
    /\ args.other = Int(1)
    /\ ret.kind = "raise"

\* C5: when the table reference does not contain exactly one "." (none,
\* or two or more; a missing table reference likewise),
\* get_table_column_names_and_types raises, and no metadata query has been
\* issued at any point of the call.
C5_MalformedTableRefRaisesBeforeQuery ==
    (/\ src # Null
     /\ ret.op = GetCols
     /\ ~ExactlyOneDot(src.mssqlserver_options.table_ref))
    => /\ QueriesIssued = {}
       /\ pc \in {"idle", "cols_split"}
       /\ pc = "idle" => ret.kind = "raise"

\* C5 witness: the call on table reference "t" ended in the unpack error.
C5_Witness ==
    /\ pc = "idle"
    /\ src # Null
    /\ ret.op = GetCols
    /\ ret.kind = "raise"
    /\ ret.exc.type = "ValueError"
    /\ src.mssqlserver_options.table_ref = Str(<<"t">>)

\* the characters of a well-formed table reference before and after its
\* separator
DatabasePart(table_ref) ==
    LET i == CHOOSE k \in Dots(table_ref) : TRUE
    IN  [k \in 1..(i - 1) |-> table_ref.v[k]]

TablePart(table_ref) ==
    LET i == CHOOSE k \in Dots(table_ref) : TRUE
    IN  [k \in 1..(Len(table_ref.v) - i) |-> table_ref.v[i + k]]

\* C6: a call of get_table_column_names_and_types that returns was made on
\* a well-formed "<database>.<table>", issued exactly one metadata query,
\* against that database and filtered by that table name, and returns the
\* rows of the answer as they came: same length, same order, duplicates
\* kept.  On a well-formed table reference the call fails only with the
\* error of the connection or of the query, after at most one query.
C6_ColumnsAsQueried ==
    (/\ pc = "idle"
     /\ src # Null
     /\ ret.op = GetCols)
    => LET table_ref == src.mssqlserver_options.table_ref
       IN  /\ ret.kind = "return" =>
                /\ ExactlyOneDot(table_ref)
                /\ Len(trace) = 3
                /\ QueriesIssued = {2}
                /\ trace[2].from_database = DatabasePart(table_ref)
                /\ trace[2].where_table_name = TablePart(table_ref)
                /\ trace[3].e = "rows"
                /\ Len(ret.value) = Len(trace[3].rows)
                /\ \A i \in 1..Len(ret.value) : ret.value[i] = trace[3].rows[i]
           /\ (ExactlyOneDot(table_ref) /\ ret.kind = "raise") =>
                /\ ret.exc.type \in {"ArgumentError", "DatabaseError"}
                /\ Cardinality(QueriesIssued) <= 1
                /\ ret.exc.type = "ArgumentError" => QueriesIssued = {}

\* C6 witness: the query answered two rows out of alphabetical order and
\* the call returned.
C6_Witness ==
    /\ pc = "idle"
    /\ src # Null
    /\ ret.op = GetCols
    /\ ret.kind = "return"
    /\ src.mssqlserver_options.table_ref = Str(<<"t", ".">>)
    /\ trace[3].rows = <<<<"ts", "datetime">>, <<"id", "int">>>>

\* C7: MsSqlServerOptions.from_proto returns a holder carrying the payload's
\* "table_ref" and "connection_str" when both keys are present, and raises
\* KeyError, returning no holder, when either is absent; the payload written
\* by MsSqlServerOptions.to_proto is among those that make it raise.
C7_OptionsFromProtoNeedsBothKeys ==
    (/\ pc = "idle"
     /\ ret.op = "options.from_proto")
    => /\ IF {"table_ref", "connection_str"} \subseteq PayloadKeys(args.proto)
          THEN /\ ret.kind = "return"
               /\ ret.value.t = "MsSqlServerOptions"
               /\ ret.value.table_ref = PayloadValue(args.proto, "table_ref")
               /\ ret.value.connection_str
                    = PayloadValue(args.proto, "connection_str")
          ELSE /\ ret.kind = "raise"
               /\ ret.exc.type = "KeyError"
               /\ ret.exc.key \in {"table_ref", "connection_str"}
               /\ ret.exc.key \notin PayloadKeys(args.proto)
       /\ (/\ src # Null
           /\ args.proto = MsSqlServerOptions_to_proto(src.mssqlserver_options))
          => ret.kind = "raise"

\* C7 witness: a payload with "table_ref" but without "connection_str" was
\* refused.
C7_Witness ==
    /\ pc = "idle"
    /\ ret.op = "options.from_proto"
    /\ ret.kind = "raise"
    /\ "table_ref" \in PayloadKeys(args.proto)
    /\ "connection_str" \notin PayloadKeys(args.proto)

\* C8: whatever setters ran before, to_proto returns a CUSTOM_SOURCE message
\* whose payload has exactly the keys "table_ref" and "connection_string"
\* with the holder's current values, and whose field mapping and three
\* columns are the source's current ones; the source is left as it was.
C8_ToProtoReflectsCurrentState ==
    [][ret'.op = "to_proto"
       => /\ src' = src
          /\ ret'.kind = "return"
          /\ ret'.value.type = "CUSTOM_SOURCE"
          /\ Len(ret'.value.custom_options.configuration.bytes) = 2
          /\ PayloadKeys(ret'.value.custom_options)
               = {"table_ref", "connection_string"}
          /\ PayloadValue(ret'.value.custom_options, "table_ref")
               = src.mssqlserver_options.table_ref
          /\ PayloadValue(ret'.value.custom_options, "connection_string")
               = src.mssqlserver_options.connection_str
          /\ ret'.value.field_mapping
               = {<<k, src.field_mapping[k]>> : k \in DOMAIN src.field_mapping}
          /\ ret'.value.event_timestamp_column = src.event_timestamp_column.v
          /\ ret'.value.created_timestamp_column = src.created_timestamp_column.v
          /\ ret'.value.date_partition_column = src.date_partition_column.v]_vars

\* C8 witness: to_proto ran after the holder's connection string had been
\* set to a value other than the one the source was constructed with.
C8_Witness ==
    /\ pc = "idle"
    /\ ret.op = "to_proto"
    /\ src.mssqlserver_options.connection_str # src.raw_connection_str
    /\ src.mssqlserver_options.table_ref = None
    /\ src.field_mapping # EmptyDict

\* C9 as stated: a constructor call, direct or through from_proto, invokes
\* the timestamp inference if and only if event_timestamp_column was not
\* given, and a given value is stored unchanged.
C9_Original ==
    ConstructionEnded
    => LET given == args.kw.event_timestamp_column
       IN  /\ (InferencesInvoked # {}) <=> (given = None)
           /\ given # None =>
                /\ ret.kind = "return"
                /\ Constructed.event_timestamp_column = given

\* C9 amended: a constructor call first builds the options holder, then
\* invokes the timestamp inference, with the pattern "TIMESTAMP|DATETIME",
\* if and only if event_timestamp_column is None or the empty string, and
\* only then calls the base initialiser.  A non-empty value, also one that
\* from_proto passes, is stored unchanged without inference; an empty one,
\* also one that from_proto passes, is replaced by the inferred column, and
\* a failing inference ends the call before the base initialiser.
C9_InferenceIffFalsy ==
    ConstructionEnded
    => LET given == args.kw.event_timestamp_column
           options == [e |-> "options"]
           infer == [e |-> "infer", pattern |-> "TIMESTAMP|DATETIME"]
           base_init == [e |-> "base_init"]
       IN  IF given = None \/ given = Str("")
           THEN \/ /\ ret.kind = "return"
                   /\ trace = <<options, infer, base_init>>
                   /\ Constructed.event_timestamp_column.v \in InferredCols
                \/ /\ ret.kind = "raise"
                   /\ trace = <<options, infer>>
           ELSE /\ ret.kind = "return"
                /\ trace = <<options, base_init>>
                /\ Constructed.event_timestamp_column = given

\* C9 witness: from_proto was handed a message whose event_timestamp_column
\* is empty, and the inference ran.
C9_Witness ==
    /\ ConstructionEnded
    /\ ret.op = "from_proto"
    /\ ret.kind = "return"
    /\ args.kw.event_timestamp_column = Str("")
    /\ InferencesInvoked = {2}

\* C10: the connection string get_table_column_names_and_types opens its
\* connection with is the holder's current connection_str.
C10_EngineUsesHolderConnectionStr ==
    (/\ src # Null
     /\ ret.op = GetCols
     /\ Len(trace) >= 1)
    => /\ trace[1].e = "create_engine"
       /\ trace[1].url = src.mssqlserver_options.connection_str

=============================================================================
